---- MODULE Spec2Model ----
(***************************************************************************)
(* Model of the JSON-file-backed record repositories of week 2:            *)
(* assignments/week-2/library_manager (class LibraryAgent, and the console *)
(* handler that validates a manual add) and assignments/week-2/movie-agent *)
(* (class MovieAgent), with their enrichment adapters, and of two browser  *)
(* sessions of streamlit_app.py that share one MovieAgent backing file.    *)
(*                                                                         *)
(* Python values are represented as follows.                               *)
(*   str            a sequence of one-character strings                    *)
(*   int            an integer                                             *)
(*   Optional[x]    << >> for None, << x >> for a value                    *)
(*   dict (a book)  a record                                               *)
(*   list           a sequence                                             *)
(* A rating is a Python number; the inputs are drawn from the integers.    *)
(***************************************************************************)
EXTENDS Integers, Sequences, FiniteSets, TLC

VARIABLES
    books,    \* LibraryAgent.books of the live instance
    file,     \* the backing file: [state, text]
    op,       \* the call that has just returned, "menu" between two calls
    arg,      \* the arguments of that call
    ret,      \* the value that call returned
    saved,    \* what save_books did inside that call: "none", "ok", "fail"
    issued,   \* history: every identifier add_book has assigned so far
    lastAdded,\* history: the identifier the previous call assigned, 0 if none
    fails,    \* history: number of failed writes so far
    out,      \* the read-only call that has just returned: arguments and result
    movies,   \* MovieAgent.movies of the live instance
    mfile,    \* the backing file of the MovieAgent: [state, text]
    magent,   \* the MovieAgent: whether one is constructed, its omdb_api_key
              \* and its use_session_state
    mcall,    \* the MovieAgent call that has just returned
    other     \* the MovieAgent of the other browser session: [magent, movies]

vars ==
    <<books, file, op, arg, ret, saved, issued, lastAdded, fails, out,
      movies, mfile, magent, mcall, other>>

----------------------------------------------------------------------------
(* Bounds of the model *)

MaxId == 2        \* add is not explored beyond this identifier
MaxFail == 1      \* number of failed writes explored
MaxLen == 2       \* length of the collections the read-only calls are applied to
MaxMovies == 2    \* add is not explored beyond this number of movies

----------------------------------------------------------------------------
(* Strings *)

None == << >>
Some(x) == << x >>

SPACE == " "
QUOTE == "\""
BACKSLASH == "\\"

IsSpace(c) == c = SPACE

RECURSIVE LStrip(_)
LStrip(s) ==
    IF s = << >> THEN << >>
    ELSE IF IsSpace(Head(s)) THEN LStrip(Tail(s))
    ELSE s

RECURSIVE RStrip(_)
RStrip(s) ==
    IF s = << >> THEN << >>
    ELSE IF IsSpace(s[Len(s)]) THEN RStrip(SubSeq(s, 1, Len(s) - 1))
    ELSE s

\* str.strip()
Strip(s) == RStrip(LStrip(s))

Digits == <<"0", "1", "2", "3", "4", "5", "6", "7", "8", "9">>

IsDigit(c) == \E d \in 1..10 : Digits[d] = c

DigitValue(c) == (CHOOSE d \in 1..10 : Digits[d] = c) - 1

RECURSIVE NatToStr(_)
NatToStr(n) ==
    IF n < 10 THEN << Digits[n + 1] >>
    ELSE NatToStr(n \div 10) \o << Digits[(n % 10) + 1] >>

\* str(n) / the JSON text of an int
IntToStr(n) == IF n < 0 THEN <<"-">> \o NatToStr(0 - n) ELSE NatToStr(n)

AllDigits(s) == s # << >> /\ \A i \in 1..Len(s) : IsDigit(s[i])

RECURSIVE StrToNat(_)
StrToNat(s) ==
    IF Len(s) = 1 THEN DigitValue(s[1])
    ELSE 10 * StrToNat(SubSeq(s, 1, Len(s) - 1)) + DigitValue(s[Len(s)])

\* str.split(): the maximal runs of non-blank characters
RECURSIVE PySplitFrom(_, _)
PySplitFrom(s, cur) ==
    IF s = << >> THEN (IF cur = << >> THEN << >> ELSE << cur >>)
    ELSE IF IsSpace(Head(s))
         THEN (IF cur = << >> THEN << >> ELSE << cur >>) \o PySplitFrom(Tail(s), << >>)
         ELSE PySplitFrom(Tail(s), Append(cur, Head(s)))

PySplit(s) == PySplitFrom(s, << >>)

\* int(token): None stands for ValueError
PyInt(t) ==
    IF AllDigits(t) THEN Some(StrToNat(t))
    ELSE IF Len(t) >= 2 /\ t[1] = "-" /\ AllDigits(Tail(t)) THEN Some(0 - StrToNat(Tail(t)))
    ELSE IF Len(t) >= 2 /\ t[1] = "+" /\ AllDigits(Tail(t)) THEN Some(StrToNat(Tail(t)))
    ELSE None

\* the year taken from the first token of the publish date
YearOfFirstToken(publish_date) ==
    LET toks == PySplit(publish_date) IN
    IF toks = << >> THEN None ELSE PyInt(toks[1])

\* the year add_book_from_api extracts from the publish date
YearOf(publish_date) ==
    LET toks == PySplit(publish_date) IN
    IF toks = << >> THEN None ELSE PyInt(toks[Len(toks)])

----------------------------------------------------------------------------
(* JSON text of a value, and the value of a JSON text.  The text of the    *)
(* file is kept as one object per record, each object mapping a key to     *)
(* the characters json.dump writes for its value.                          *)

JsonNull == <<"n", "u", "l", "l">>

\* json.dump that writes the characters of a string as they are
JsonEscapeNothing(s) == s

RECURSIVE JsonEscape(_)
JsonEscape(s) ==
    IF s = << >> THEN << >>
    ELSE (IF Head(s) = QUOTE \/ Head(s) = BACKSLASH
          THEN << BACKSLASH, Head(s) >>
          ELSE << Head(s) >>) \o JsonEscape(Tail(s))

RECURSIVE JsonUnescape(_)
JsonUnescape(s) ==
    IF s = << >> THEN << >>
    ELSE IF Head(s) = BACKSLASH /\ Len(s) >= 2
         THEN << s[2] >> \o JsonUnescape(SubSeq(s, 3, Len(s)))
         ELSE << Head(s) >> \o JsonUnescape(Tail(s))

JsonDumpStr(s) == << QUOTE >> \o JsonEscape(s) \o << QUOTE >>

JsonDumpInt(n) == IntToStr(n)

JsonDumpOptInt(o) == IF o = None THEN JsonNull ELSE JsonDumpInt(o[1])

JsonDumpOptStr(o) == IF o = None THEN JsonNull ELSE JsonDumpStr(o[1])

\* The body of a string literal is well formed when every quote in it is
\* escaped and no escape is left open.
RECURSIVE EscapedOk(_)
EscapedOk(s) ==
    IF s = << >> THEN TRUE
    ELSE IF Head(s) = BACKSLASH THEN Len(s) >= 2 /\ EscapedOk(SubSeq(s, 3, Len(s)))
    ELSE Head(s) # QUOTE /\ EscapedOk(Tail(s))

IsJsonStr(t) ==
    /\ Len(t) >= 2
    /\ t[1] = QUOTE
    /\ t[Len(t)] = QUOTE
    /\ EscapedOk(SubSeq(t, 2, Len(t) - 1))

IsJsonInt(t) ==
    \/ AllDigits(t)
    \/ Len(t) >= 2 /\ t[1] = "-" /\ AllDigits(Tail(t))

IsJsonValue(t) == t = JsonNull \/ IsJsonStr(t) \/ IsJsonInt(t)

JsonLoadStr(t) == JsonUnescape(SubSeq(t, 2, Len(t) - 1))

JsonLoadInt(t) == IF t[1] = "-" THEN 0 - StrToNat(Tail(t)) ELSE StrToNat(t)

JsonLoadOptInt(t) == IF t = JsonNull THEN None ELSE Some(JsonLoadInt(t))

JsonLoadOptStr(t) == IF t = JsonNull THEN None ELSE Some(JsonLoadStr(t))

BookKeys == {"id", "title", "author", "genre", "year", "isbn", "rating",
             "status", "added_date", "notes"}

\* json.dump of one book dictionary
JsonDumpBook(b) ==
    [id |-> JsonDumpInt(b.id),
     title |-> JsonDumpStr(b.title),
     author |-> JsonDumpStr(b.author),
     genre |-> JsonDumpStr(b.genre),
     year |-> JsonDumpOptInt(b.year),
     isbn |-> JsonDumpOptStr(b.isbn),
     rating |-> JsonDumpOptInt(b.rating),
     status |-> JsonDumpStr(b.status),
     added_date |-> JsonDumpStr(b.added_date),
     notes |-> JsonDumpStr(b.notes)]

\* json.dump(self.books, ...)
JsonDump(bs) == [i \in 1..Len(bs) |-> JsonDumpBook(bs[i])]

\* json.load of one object
JsonLoadBook(o) ==
    [id |-> JsonLoadInt(o.id),
     title |-> JsonLoadStr(o.title),
     author |-> JsonLoadStr(o.author),
     genre |-> JsonLoadStr(o.genre),
     year |-> JsonLoadOptInt(o.year),
     isbn |-> JsonLoadOptStr(o.isbn),
     rating |-> JsonLoadOptInt(o.rating),
     status |-> JsonLoadStr(o.status),
     added_date |-> JsonLoadStr(o.added_date),
     notes |-> JsonLoadStr(o.notes)]

\* json.load raises JSONDecodeError unless every value is well formed
JsonWellFormed(text) ==
    \A i \in 1..Len(text) : \A k \in BookKeys : IsJsonValue(text[i][k])

JsonLoad(text) == [i \in 1..Len(text) |-> JsonLoadBook(text[i])]

----------------------------------------------------------------------------
(* The backing file and LibraryAgent.load_books / save_books *)

NoFile == [state |-> "missing", text |-> << >>]

\* open(..., 'w') truncated the file and the write stopped before the end
PartialFile == [state |-> "partial", text |-> << >>]

\* what the environment lets a write do
WriteOutcomes == {"ok", "open_fail", "dump_fail"}

load_books(f) ==
    IF f.state = "missing" THEN << >>
    ELSE IF f.state = "partial" \/ ~JsonWellFormed(f.text) THEN << >>
    ELSE JsonLoad(f.text)

\* the file after save_books, by what the write did
save_books_file(bs, f, w) ==
    IF w = "ok" THEN [state |-> "ok", text |-> JsonDump(bs)]
    ELSE IF w = "open_fail" THEN f
    ELSE PartialFile

\* the value save_books returns
save_books_ret(w) == w = "ok"

----------------------------------------------------------------------------
(* Records *)

STATUS_UNREAD == <<"u", "n", "r", "e", "a", "d">>
STATUS_READ == <<"r", "e", "a", "d">>
UNKNOWN == <<"U", "n", "k", "n", "o", "w", "n">>

\* the identifier of the first record taken for the largest
max_id_first(bs) == bs[1].id

RECURSIVE max_id(_)
max_id(bs) ==
    IF Len(bs) = 1 THEN bs[1].id
    ELSE LET m == max_id(Tail(bs)) IN IF bs[1].id > m THEN bs[1].id ELSE m

\* an identifier derived from the length of the collection
generate_book_id_len(bs) == Len(bs) + 1

generate_book_id(bs) == IF bs = << >> THEN 1 ELSE max_id(bs) + 1

\* the dictionary add_book builds
NewBook(bs, title, author, genre, year, isbn, today) ==
    [id |-> generate_book_id(bs),
     title |-> Strip(title),
     author |-> Strip(author),
     genre |-> Strip(genre),
     year |-> year,
     isbn |-> isbn,
     rating |-> None,
     status |-> STATUS_UNREAD,
     added_date |-> today,
     notes |-> << >>]

\* a scan that loses count of the records it has passed
RECURSIVE get_book_index_lost(_, _)
get_book_index_lost(bs, book_id) ==
    IF bs = << >> THEN 0
    ELSE IF bs[1].id = book_id THEN 1
    ELSE get_book_index_lost(Tail(bs), book_id)

RECURSIVE get_book_index(_, _)
get_book_index(bs, book_id) ==
    IF bs = << >> THEN 0
    ELSE IF bs[1].id = book_id THEN 1
    ELSE LET r == get_book_index(Tail(bs), book_id) IN IF r = 0 THEN 0 ELSE r + 1

\* get_book_by_id: the first record with the identifier, or None
get_book_by_id(bs, book_id) ==
    LET i == get_book_index(bs, book_id) IN IF i = 0 THEN None ELSE Some(bs[i])

RemoveAt(bs, i) == SubSeq(bs, 1, i - 1) \o SubSeq(bs, i + 1, Len(bs))

----------------------------------------------------------------------------
(* Return values and recorded arguments *)

RetTrue == [tag |-> "True", book |-> None]
RetFalse == [tag |-> "False", book |-> None]
RetNone == [tag |-> "None", book |-> None]
RetBook(b) == [tag |-> "Book", book |-> Some(b)]
RetBool(x) == IF x THEN RetTrue ELSE RetFalse

NoArg == [id |-> 0, rating |-> 0, title |-> << >>, author |-> << >>, details |-> None]

----------------------------------------------------------------------------
(* Inputs *)

TITLE_A == <<" ", "A", QUOTE>>
AUTHOR_B == <<"B", " ">>
BLANK == <<" ">>
TODAY == <<"2", "0", "2", "4", "-", "0", "1", "-", "0", "5">>
ISBN_9 == <<"9">>
YEAR_TEXT == <<"1", "9", "9", "9">>

\* arguments of a direct add_book call
AddInputs ==
    {[title |-> TITLE_A, author |-> AUTHOR_B, genre |-> UNKNOWN \o BLANK,
      year |-> Some(1999), isbn |-> Some(ISBN_9)],
     [title |-> BLANK, author |-> << >>, genre |-> UNKNOWN,
      year |-> None, isbn |-> None]}

\* what the user types at the prompts of handle_add_book_manual
TypedInputs ==
    {[title |-> TITLE_A, author |-> AUTHOR_B, genre |-> BLANK,
      year |-> YEAR_TEXT, isbn |-> ISBN_9],
     [title |-> BLANK, author |-> AUTHOR_B, genre |-> BLANK,
      year |-> << >>, isbn |-> << >>],
     [title |-> TITLE_A, author |-> BLANK, genre |-> BLANK,
      year |-> <<"x">>, isbn |-> << >>]}

\* what fetch_book_details returns: None, or the details it extracted
ApiResults ==
    {None,
     Some([title |-> <<"A", QUOTE>>, authors |-> << <<"B">> >>,
           publish_date |-> <<"M", " ">> \o YEAR_TEXT])}

Isbns == {ISBN_9}
Dates == {TODAY}
IdInputs == 1..MaxId
RatingInputs == {-1, 0, 6}
StatusInputs == {STATUS_READ}

----------------------------------------------------------------------------
(* Read-only operations of LibraryAgent, as functions of the collection *)

STATUS_READING == <<"r", "e", "a", "d", "i", "n", "g">>
FILTER_ALL == <<"a", "l", "l">>

UPPER == <<"A", "B", "C", "D", "E", "F", "G", "H", "I", "J", "K", "L", "M",
           "N", "O", "P", "Q", "R", "S", "T", "U", "V", "W", "X", "Y", "Z">>
LOWER == <<"a", "b", "c", "d", "e", "f", "g", "h", "i", "j", "k", "l", "m",
           "n", "o", "p", "q", "r", "s", "t", "u", "v", "w", "x", "y", "z">>

LowerChar(c) ==
    IF \E i \in 1..Len(UPPER) : UPPER[i] = c
    THEN LOWER[CHOOSE i \in 1..Len(UPPER) : UPPER[i] = c]
    ELSE c

\* str.lower()
Lower(s) == [i \in 1..Len(s) |-> LowerChar(s[i])]

\* sub in s
Contains(s, sub) ==
    \E i \in 0..(Len(s) - Len(sub)) : SubSeq(s, i + 1, i + Len(sub)) = sub

\* str(book.get(search_by, "")) for the text fields
Field(book, name) ==
    CASE name = "title" -> book.title
      [] name = "author" -> book.author
      [] name = "genre" -> book.genre

\* list_books: the collection itself, or the records with the given status
list_books(bs, filter_by) ==
    IF filter_by = FILTER_ALL THEN bs
    ELSE LET Keep(book) == book.status = filter_by IN SelectSeq(bs, Keep)

\* search_books with the query as it was passed
search_books_unstripped(bs, query, search_by) ==
    LET query_lower == Lower(query)
        Keep(book) == Contains(Lower(Field(book, search_by)), query_lower)
    IN  SelectSeq(bs, Keep)

\* search_books: the query is lowered and stripped, the field is lowered
search_books(bs, query, search_by) ==
    LET query_lower == Strip(Lower(query))
        Keep(book) == Contains(Lower(Field(book, search_by)), query_lower)
    IN  SelectSeq(bs, Keep)

\* the truth value of book.get("rating"): not None and not zero
Truthy(rating) == rating # None /\ rating[1] # 0

\* list.sort(key=rating, reverse=True): stable, highest rating first
RECURSIVE InsertByRating(_, _)
InsertByRating(sorted, book) ==
    IF sorted = << >> THEN << book >>
    ELSE IF Head(sorted).rating[1] >= book.rating[1]
         THEN << Head(sorted) >> \o InsertByRating(Tail(sorted), book)
         ELSE << book >> \o sorted

RECURSIVE SortByRating(_)
SortByRating(bs) ==
    IF bs = << >> THEN << >>
    ELSE InsertByRating(SortByRating(SubSeq(bs, 1, Len(bs) - 1)), bs[Len(bs)])

\* get_recommendations: filter on rating and genre, then sort
get_recommendations(bs, genre, min_rating) ==
    LET Keep(book) ==
            /\ Truthy(book.rating)
            /\ book.rating[1] >= min_rating
            /\ (genre = None \/ Lower(book.genre) = Lower(genre[1]))
    IN  SortByRating(SelectSeq(bs, Keep))

\* the keys of the dictionary, in the order they were first inserted
RECURSIVE GroupKeys(_, _, _)
GroupKeys(bs, name, seen) ==
    IF bs = << >> THEN seen
    ELSE IF \E k \in 1..Len(seen) : seen[k] = Field(Head(bs), name)
         THEN GroupKeys(Tail(bs), name, seen)
         ELSE GroupKeys(Tail(bs), name, Append(seen, Field(Head(bs), name)))

\* grouping that keeps only the last record of each key
organize_by_last(bs, name) ==
    LET keys == GroupKeys(bs, name, << >>) IN
    [keys |-> keys,
     groups |-> [k \in 1..Len(keys) |->
                    LET Keep(book) == Field(book, name) = keys[k]
                        g == SelectSeq(bs, Keep)
                    IN  << g[Len(g)] >>]]

\* organize_by_genre, organize_by_author: a dictionary from value to records
organize_by(bs, name) ==
    LET keys == GroupKeys(bs, name, << >>) IN
    [keys |-> keys,
     groups |-> [k \in 1..Len(keys) |->
                    LET Keep(book) == Field(book, name) = keys[k] IN SelectSeq(bs, Keep)]]

organize_by_genre(bs) == organize_by(bs, "genre")
organize_by_author(bs) == organize_by(bs, "author")

RECURSIVE SumRatings(_)
SumRatings(bs) ==
    IF bs = << >> THEN 0 ELSE Head(bs).rating[1] + SumRatings(Tail(bs))

\* num / den rounded to the nearest integer, a tie to the even one
RoundHalfEven(num, den) ==
    LET q == num \div den
        r == num % den
    IN  IF 2 * r < den THEN q
        ELSE IF 2 * r > den THEN q + 1
        ELSE IF q % 2 = 0 THEN q ELSE q + 1

\* round(num / den, 2) in hundredths
Round2(num, den) == RoundHalfEven(100 * num, den)

CountStatus(bs, status) ==
    LET Keep(book) == book.status = status IN Len(SelectSeq(bs, Keep))

\* get_statistics that always counts the default genre "Unknown"
get_statistics_counts_unknown(bs) ==
    LET Rated(book) == Truthy(book.rating)
        rated_books == SelectSeq(bs, Rated)
    IN  [total_books |-> Len(bs),
         read |-> CountStatus(bs, STATUS_READ),
         reading |-> CountStatus(bs, STATUS_READING),
         unread |-> CountStatus(bs, STATUS_UNREAD),
         average_rating |-> IF rated_books # << >>
                            THEN Round2(SumRatings(rated_books), Len(rated_books))
                            ELSE 0,
         unique_genres |-> Cardinality({bs[i].genre : i \in 1..Len(bs)} \cup {UNKNOWN}),
         unique_authors |-> Cardinality({bs[i].author : i \in 1..Len(bs)})]

\* get_statistics; average_rating is in hundredths
get_statistics(bs) ==
    LET Rated(book) == Truthy(book.rating)
        rated_books == SelectSeq(bs, Rated)
    IN  [total_books |-> Len(bs),
         read |-> CountStatus(bs, STATUS_READ),
         reading |-> CountStatus(bs, STATUS_READING),
         unread |-> CountStatus(bs, STATUS_UNREAD),
         average_rating |-> IF rated_books # << >>
                            THEN Round2(SumRatings(rated_books), Len(rated_books))
                            ELSE 0,
         unique_genres |-> Cardinality({bs[i].genre : i \in 1..Len(bs)}),
         unique_authors |-> Cardinality({bs[i].author : i \in 1..Len(bs)})]

\* the record of a read-only call: its arguments and what it returned
NoStats ==
    [total_books |-> 0, read |-> 0, reading |-> 0, unread |-> 0,
     average_rating |-> 0, unique_genres |-> 0, unique_authors |-> 0]

NoOut ==
    [q |-> "none", filter_by |-> << >>, query |-> << >>, search_by |-> "none",
     genre |-> None, min_rating |-> 0,
     list |-> << >>, keys |-> << >>, groups |-> << >>, stats |-> NoStats]

----------------------------------------------------------------------------
(* MovieAgent: the movie dictionary, the backing file, load_movies and     *)
(* save_movies.  A rating is a Python float, kept in hundredths.           *)

\* the position of the first "." of the text, 0 if it has none
DotAt(t) ==
    IF \E i \in 1..Len(t) : t[i] = "."
    THEN CHOOSE i \in 1..Len(t) : t[i] = "." /\ \A j \in 1..(i - 1) : t[j] # "."
    ELSE 0

\* float(text) in hundredths, for texts of digits with at most two decimals;
\* None stands for ValueError
PyFloat(t) ==
    LET d == DotAt(t)
        whole == SubSeq(t, 1, d - 1)
        frac == SubSeq(t, d + 1, Len(t))
    IN  IF d = 0 THEN (IF AllDigits(t) THEN Some(100 * StrToNat(t)) ELSE None)
        ELSE IF AllDigits(whole) /\ AllDigits(frac) /\ Len(frac) <= 2
             THEN Some(100 * StrToNat(whole)
                       + (IF Len(frac) = 1 THEN 10 * StrToNat(frac) ELSE StrToNat(frac)))
             ELSE None

\* repr of a non-negative float given in hundredths: 800 is 8.0, 725 is 7.25
FloatToStr(h) ==
    NatToStr(h \div 100) \o <<".">> \o
        (IF h % 10 = 0 THEN << Digits[((h % 100) \div 10) + 1] >>
         ELSE << Digits[((h % 100) \div 10) + 1], Digits[(h % 10) + 1] >>)

JsonDumpFloat(h) == IF h < 0 THEN <<"-">> \o FloatToStr(0 - h) ELSE FloatToStr(h)

JsonTrue == <<"t", "r", "u", "e">>
JsonFalse == <<"f", "a", "l", "s", "e">>

JsonDumpBool(b) == IF b THEN JsonTrue ELSE JsonFalse

IsJsonFloat(t) ==
    \/ PyFloat(t) # None
    \/ Len(t) >= 2 /\ t[1] = "-" /\ PyFloat(Tail(t)) # None

IsJsonBool(t) == t = JsonTrue \/ t = JsonFalse

JsonLoadFloat(t) == IF t[1] = "-" THEN 0 - PyFloat(Tail(t))[1] ELSE PyFloat(t)[1]

JsonLoadBool(t) == t = JsonTrue

\* json.dump of one movie dictionary
JsonDumpMovie(m) ==
    [title |-> JsonDumpStr(m.title),
     genre |-> JsonDumpStr(m.genre),
     rating |-> JsonDumpFloat(m.rating),
     year |-> JsonDumpInt(m.year),
     watched |-> JsonDumpBool(m.watched)]

\* json.dump(self.movies, file, indent=2)
JsonDumpMovies(ms) == [i \in 1..Len(ms) |-> JsonDumpMovie(ms[i])]

JsonLoadMovie(o) ==
    [title |-> JsonLoadStr(o.title),
     genre |-> JsonLoadStr(o.genre),
     rating |-> JsonLoadFloat(o.rating),
     year |-> JsonLoadInt(o.year),
     watched |-> JsonLoadBool(o.watched)]

\* json.load raises JSONDecodeError unless every value is well formed
MoviesWellFormed(text) ==
    \A i \in 1..Len(text) :
        /\ IsJsonStr(text[i].title)
        /\ IsJsonStr(text[i].genre)
        /\ IsJsonFloat(text[i].rating)
        /\ IsJsonInt(text[i].year)
        /\ IsJsonBool(text[i].watched)

JsonLoadMovies(text) == [i \in 1..Len(text) |-> JsonLoadMovie(text[i])]

\* the file holds the text "[]"
EmptyListFile == [state |-> "ok", text |-> << >>]

\* the file holds bytes that are no text in the encoding open() reads with
UndecodableFile == [state |-> "undecodable", text |-> << >>]

\* load_movies: raised tells that an exception left the method
load_movies(f) ==
    IF f.state = "missing" THEN [raised |-> FALSE, movies |-> << >>]
    ELSE IF f.state = "undecodable" THEN [raised |-> TRUE, movies |-> << >>]
    ELSE IF f.state = "partial" \/ ~MoviesWellFormed(f.text)
         THEN [raised |-> FALSE, movies |-> << >>]
    ELSE [raised |-> FALSE, movies |-> JsonLoadMovies(f.text)]

\* save_movies that reads the file again and keeps the records of the file
\* which the list does not have
save_movies_file_merging(ms, f, use_session_state, w) ==
    LET stored == load_movies(f).movies
        has(movie) == \E i \in 1..Len(ms) : ms[i] = movie
    IN  IF use_session_state THEN f
        ELSE IF w = "ok"
             THEN [state |-> "ok",
                   text |-> JsonDumpMovies(SelectSeq(stored, LAMBDA movie : ~has(movie)) \o ms)]
        ELSE IF w = "open_fail" THEN f
        ELSE PartialFile

\* the file after save_movies, by what the write did; with use_session_state
\* there is no write
save_movies_file(ms, f, use_session_state, w) ==
    IF use_session_state THEN f
    ELSE IF w = "ok" THEN [state |-> "ok", text |-> JsonDumpMovies(ms)]
    ELSE IF w = "open_fail" THEN f
    ELSE PartialFile

\* save_movies has no handler: a failed write leaves it as an exception
save_movies_raises(w) == w # "ok"

\* _ensure_data_directory: writes "[]" when there is no file
ensure_data_directory(f, w) ==
    IF f.state # "missing" THEN [raised |-> FALSE, file |-> f]
    ELSE IF w = "ok" THEN [raised |-> FALSE, file |-> EmptyListFile]
    ELSE IF w = "open_fail" THEN [raised |-> TRUE, file |-> f]
    ELSE [raised |-> TRUE, file |-> PartialFile]

\* the dictionary add_movie builds: float(rating), int(year)
NewMovie(title, genre, rating, year, watched) ==
    [title |-> title, genre |-> genre, rating |-> 100 * rating, year |-> year,
     watched |-> watched]

SameTitle(movie, title) == Lower(movie.title) = Lower(title)

\* search_by_title: the title as passed, lowered
search_by_title(ms, title) ==
    SelectSeq(ms, LAMBDA movie : Contains(Lower(movie.title), Lower(title)))

RECURSIVE SumMovieRatings(_)
SumMovieRatings(ms) ==
    IF ms = << >> THEN 0 ELSE Head(ms).rating + SumMovieRatings(Tail(ms))

\* MovieAgent.get_statistics; avg_rating is in hundredths
movie_get_statistics(ms) ==
    IF ms = << >>
    THEN [total |-> 0, watched |-> 0, unwatched |-> 0, avg_rating |-> 0, genres |-> 0]
    ELSE LET total == Len(ms)
             watched == Len(SelectSeq(ms, LAMBDA m : m.watched))
         IN  [total |-> total,
              watched |-> watched,
              unwatched |-> total - watched,
              avg_rating |-> RoundHalfEven(SumMovieRatings(ms), total),
              genres |-> Cardinality({ms[i].genre : i \in 1..Len(ms)})]

NoMovieStats == [total |-> 0, watched |-> 0, unwatched |-> 0, avg_rating |-> 0, genres |-> 0]

\* the record of a MovieAgent call: its argument, what it returned and wrote
NoCall ==
    [op |-> "menu", title |-> << >>, tag |-> "None", movie |-> None, requests |-> 0,
     lookup |-> "none", write |-> "none", list |-> << >>, stats |-> NoMovieStats]

\* no MovieAgent has been constructed
NoAgent == [live |-> FALSE, omdb_api_key |-> None, use_session_state |-> FALSE]

\* the other session has not constructed its MovieAgent
NoSession == [magent |-> NoAgent, movies |-> << >>]

----------------------------------------------------------------------------
(* The enrichment adapters, as functions of the response the service       *)
(* gives.  A response is [error, status_code, json_ok, ...]: error is       *)
(* "none", "timeout" or "connection" (both requests.RequestException);     *)
(* json_ok tells whether response.json() can parse the body; a key of the  *)
(* body is an Optional, None when the body does not have the key.          *)

ANIMATION == <<"A", "n", "i", "m", "a", "t", "i", "o", "n">>
NOT_AVAILABLE == <<"N", "/", "A">>
TRUE_TEXT == <<"T", "r", "u", "e">>
YEAR_2000 == <<"2", "0", "0", "0">>
YEAR_1988 == <<"1", "9", "8", "8">>

\* what a lookup gives back: None, a dictionary, or an exception
FetchNone(n) == [tag |-> "None", movie |-> None, requests |-> n]
FetchRaise(n) == [tag |-> "Raise", movie |-> None, requests |-> n]
FetchFound(d, n) == [tag |-> "Found", movie |-> Some(d), requests |-> n]

\* dict.get(key, default)
GetOr(o, default) == IF o = None THEN default ELSE o[1]

\* text.split(",")[0]
RECURSIVE UpToComma(_)
UpToComma(s) ==
    IF s = << >> \/ Head(s) = "," THEN << >>
    ELSE << Head(s) >> \o UpToComma(Tail(s))

\* the loop of fetch_ghibli_movie over the films of the body
RECURSIVE GhibliScan(_, _)
GhibliScan(films, title) ==
    IF films = << >> THEN FetchNone(1)
    ELSE LET movie == Head(films) IN
         IF movie.title = None THEN FetchRaise(1)
         ELSE IF Lower(movie.title[1]) # Lower(title) THEN GhibliScan(Tail(films), title)
         ELSE IF movie.rt_score = None THEN FetchRaise(1)
         ELSE IF PyFloat(movie.rt_score[1]) = None THEN FetchRaise(1)
         ELSE IF movie.release_date = None THEN FetchRaise(1)
         ELSE IF PyInt(movie.release_date[1]) = None THEN FetchRaise(1)
         ELSE FetchFound([title |-> movie.title[1],
                          genre |-> ANIMATION,
                          rating |-> PyFloat(movie.rt_score[1])[1] \div 10,
                          year |-> PyInt(movie.release_date[1])[1],
                          watched |-> FALSE], 1)

\* fetch_ghibli_movie: only requests.RequestException is handled; whether
\* the error of response.json() is one depends on the requests release
fetch_ghibli_movie(title, resp, json_error_is_request_exception) ==
    IF resp.error # "none" THEN FetchNone(1)
    ELSE IF resp.status_code # 200 THEN FetchNone(1)
    ELSE IF ~resp.json_ok
         THEN (IF json_error_is_request_exception THEN FetchNone(1) ELSE FetchRaise(1))
    ELSE GhibliScan(resp.films, title)

\* fetch_omdb_movie that asks the service a second time when the first
\* request failed
fetch_omdb_movie_retrying(title, omdb_api_key, resp) ==
    IF omdb_api_key = None THEN FetchNone(0)
    ELSE IF resp.error # "none" THEN FetchNone(2)
    ELSE IF ~resp.json_ok THEN FetchNone(1)
    ELSE IF ~resp.is_object THEN FetchRaise(1)
    ELSE IF resp.data.Response # Some(TRUE_TEXT) THEN FetchNone(1)
    ELSE LET imdb_rating == GetOr(resp.data.imdbRating, NOT_AVAILABLE)
             rating == IF imdb_rating # NOT_AVAILABLE THEN PyFloat(imdb_rating)
                       ELSE Some(700)
             year == PyInt(SubSeq(GetOr(resp.data.Year, YEAR_2000), 1, 4))
         IN  IF rating = None \/ year = None THEN FetchNone(1)
             ELSE FetchFound([title |-> GetOr(resp.data.Title, title),
                              genre |-> Strip(UpToComma(GetOr(resp.data.Genre, UNKNOWN))),
                              rating |-> rating[1],
                              year |-> year[1],
                              watched |-> FALSE], 1)

\* fetch_omdb_movie: requests.RequestException and ValueError are handled
fetch_omdb_movie(title, omdb_api_key, resp) ==
    IF omdb_api_key = None THEN FetchNone(0)
    ELSE IF resp.error # "none" THEN FetchNone(1)
    ELSE IF ~resp.json_ok THEN FetchNone(1)
    ELSE IF ~resp.is_object THEN FetchRaise(1)
    ELSE IF resp.data.Response # Some(TRUE_TEXT) THEN FetchNone(1)
    ELSE LET imdb_rating == GetOr(resp.data.imdbRating, NOT_AVAILABLE)
             rating == IF imdb_rating # NOT_AVAILABLE THEN PyFloat(imdb_rating)
                       ELSE Some(700)
             year == PyInt(SubSeq(GetOr(resp.data.Year, YEAR_2000), 1, 4))
         IN  IF rating = None \/ year = None THEN FetchNone(1)
             ELSE FetchFound([title |-> GetOr(resp.data.Title, title),
                              genre |-> Strip(UpToComma(GetOr(resp.data.Genre, UNKNOWN))),
                              rating |-> rating[1],
                              year |-> year[1],
                              watched |-> FALSE], 1)

\* fetch_movie_from_api: Ghibli first, OMDB when Ghibli gave nothing
fetch_movie_from_api(title, omdb_api_key, ghibli, omdb, json_error_is_request_exception) ==
    LET g == fetch_ghibli_movie(title, ghibli, json_error_is_request_exception)
        o == fetch_omdb_movie(title, omdb_api_key, omdb)
    IN  IF g.tag # "None" THEN g
        ELSE [o EXCEPT !.requests = g.requests + o.requests]

\* fetch_book_details: every exception is handled
fetch_book_details(isbn, resp) ==
    IF resp.error # "none" THEN FetchNone(1)
    ELSE IF resp.status_code # 200 THEN FetchNone(1)
    ELSE IF ~resp.json_ok THEN FetchNone(1)
    ELSE IF ~resp.found THEN FetchNone(1)
    ELSE IF \E i \in 1..Len(resp.book_data.authors) : resp.book_data.authors[i] = None
         THEN FetchNone(1)
    ELSE FetchFound([title |-> GetOr(resp.book_data.title, UNKNOWN),
                     authors |-> [i \in 1..Len(resp.book_data.authors) |->
                                    resp.book_data.authors[i][1]],
                     publish_date |-> GetOr(resp.book_data.publish_date, UNKNOWN)], 1)

----------------------------------------------------------------------------
(* The state after construction: no storage file, load_books gives []. *)

Init ==
    /\ file = NoFile
    /\ books = load_books(NoFile)
    /\ op = "menu"
    /\ arg = NoArg
    /\ ret = RetNone
    /\ saved = "none"
    /\ issued = {}
    /\ lastAdded = 0
    /\ fails = 0
    /\ out = NoOut
    /\ movies = << >>
    /\ mfile = NoFile
    /\ magent = NoAgent
    /\ mcall = NoCall
    /\ other = NoSession

\* what a call of the mutating interface leaves alone
others == <<out, movies, mfile, magent, mcall, other>>

\* main(): the loop is back at the menu, ready for the next call
AtMenu == op = "menu" /\ mcall.op = "menu"

\* the write inside an operation: the environment may fail it
CanWrite(w) == w \in WriteOutcomes /\ (w # "ok" => fails < MaxFail)

Write(bs, w) ==
    /\ file' = save_books_file(bs, file, w)
    /\ saved' = IF save_books_ret(w) THEN "ok" ELSE "fail"
    /\ fails' = IF w = "ok" THEN fails ELSE fails + 1

NoWrite == /\ file' = file /\ saved' = "none" /\ fails' = fails

\* the identifier of one more record is within the bound
CanAdd == generate_book_id(books) <= MaxId

\* add_book that saves before it appends
add_book_save_first(title, author, genre, year, isbn, today, w) ==
    LET book == NewBook(books, title, author, genre, year, isbn, today) IN
    /\ Write(books, w)
    /\ books' = Append(books, book)
    /\ issued' = issued \cup {book.id}
    /\ lastAdded' = book.id
    /\ ret' = RetBook(book)

\* add_book: build the record, append, save, return the record
add_book(title, author, genre, year, isbn, today, w) ==
    LET book == NewBook(books, title, author, genre, year, isbn, today) IN
    /\ books' = Append(books, book)
    /\ Write(books', w)
    /\ issued' = issued \cup {book.id}
    /\ lastAdded' = book.id
    /\ ret' = RetBook(book)

----------------------------------------------------------------------------
(* Operations of LibraryAgent *)

\* a fresh LibraryAgent over the same storage path: __init__ calls load_books
NewAgent ==
    /\ AtMenu
    /\ books' = load_books(file)
    /\ op' = "new_agent"
    /\ arg' = NoArg
    /\ ret' = RetNone
    /\ NoWrite
    /\ UNCHANGED issued
    /\ lastAdded' = 0

SaveBooks ==
    /\ AtMenu
    /\ \E w \in WriteOutcomes :
        /\ CanWrite(w)
        /\ Write(books, w)
        /\ op' = "save_books"
        /\ arg' = NoArg
        /\ ret' = RetBool(save_books_ret(w))
        /\ UNCHANGED <<books, issued>>
        /\ lastAdded' = 0

AddBook ==
    /\ AtMenu
    /\ \E in \in AddInputs, today \in Dates, w \in WriteOutcomes :
        /\ CanAdd
        /\ CanWrite(w)
        /\ add_book(in.title, in.author, in.genre, in.year, in.isbn, today, w)
        /\ op' = "add_book"
        /\ arg' = [NoArg EXCEPT !.title = in.title, !.author = in.author]

\* add_book_from_api that writes the file also when nothing was found
add_book_from_api_always_saves(isbn, details, today, w) ==
    /\ op' = "add_book_from_api"
    /\ arg' = [NoArg EXCEPT !.details = details]
    /\ IF details # None
       THEN LET d == details[1]
                author == IF d.authors # << >> THEN d.authors[1] ELSE UNKNOWN
            IN  /\ CanAdd
                /\ CanWrite(w)
                /\ add_book(d.title, author, UNKNOWN, YearOf(d.publish_date),
                            Some(isbn), today, w)
       ELSE /\ w = "ok"
            /\ ret' = RetNone
            /\ Write(books, w)
            /\ UNCHANGED <<books, issued>>
            /\ lastAdded' = 0

\* add_book_from_api, given what fetch_book_details returned
add_book_from_api(isbn, details, today, w) ==
    /\ op' = "add_book_from_api"
    /\ arg' = [NoArg EXCEPT !.details = details]
    /\ IF details # None
       THEN LET d == details[1]
                author == IF d.authors # << >> THEN d.authors[1] ELSE UNKNOWN
            IN  /\ CanAdd
                /\ CanWrite(w)
                /\ add_book(d.title, author, UNKNOWN, YearOf(d.publish_date),
                            Some(isbn), today, w)
       ELSE /\ w = "ok"
            /\ ret' = RetNone
            /\ NoWrite
            /\ UNCHANGED <<books, issued>>
            /\ lastAdded' = 0

AddBookFromApi ==
    /\ AtMenu
    /\ \E isbn \in Isbns, details \in ApiResults, today \in Dates, w \in WriteOutcomes :
        add_book_from_api(isbn, details, today, w)

\* main.handle_add_book_manual: the prompts, the two checks, then add_book
HandleAddBookManual ==
    /\ AtMenu
    /\ \E in \in TypedInputs, today \in Dates, w \in WriteOutcomes :
        LET title == Strip(in.title)
            author == Strip(in.author)
            genre == IF Strip(in.genre) # << >> THEN Strip(in.genre) ELSE UNKNOWN
            year == IF AllDigits(Strip(in.year)) THEN Some(StrToNat(Strip(in.year))) ELSE None
            isbn == IF Strip(in.isbn) # << >> THEN Some(Strip(in.isbn)) ELSE None
        IN  /\ op' = "handle_add_book_manual"
            /\ arg' = [NoArg EXCEPT !.title = in.title, !.author = in.author]
            /\ IF title = << >> \/ author = << >>
               THEN /\ w = "ok"
                    /\ ret' = RetNone
                    /\ NoWrite
                    /\ UNCHANGED <<books, issued>>
                    /\ lastAdded' = 0
               ELSE /\ CanAdd
                    /\ CanWrite(w)
                    /\ add_book(title, author, genre, year, isbn, today, w)

\* update_status: the lookup, the assignment of whatever status is passed,
\* the save
update_status(book_id, status, w) ==
    LET i == get_book_index(books, book_id) IN
    /\ op' = "update_status"
    /\ arg' = [NoArg EXCEPT !.id = book_id]
    /\ UNCHANGED issued
    /\ lastAdded' = 0
    /\ IF i # 0
       THEN /\ CanWrite(w)
            /\ books' = [books EXCEPT ![i].status = status]
            /\ Write(books', w)
            /\ ret' = RetTrue
       ELSE /\ w = "ok"
            /\ UNCHANGED books
            /\ NoWrite
            /\ ret' = RetFalse

UpdateStatus ==
    /\ AtMenu
    /\ \E book_id \in IdInputs, status \in StatusInputs, w \in WriteOutcomes :
        update_status(book_id, status, w)

\* rate_book without the range check
RateBookNoRangeCheck ==
    /\ AtMenu
    /\ \E book_id \in IdInputs, rating \in RatingInputs, w \in WriteOutcomes :
        LET i == get_book_index(books, book_id) IN
        /\ op' = "rate_book"
        /\ arg' = [NoArg EXCEPT !.id = book_id, !.rating = rating]
        /\ UNCHANGED issued
        /\ lastAdded' = 0
        /\ IF i # 0
           THEN /\ CanWrite(w)
                /\ books' = [books EXCEPT ![i].rating = Some(rating)]
                /\ Write(books', w)
                /\ ret' = RetTrue
           ELSE /\ w = "ok"
                /\ UNCHANGED books
                /\ NoWrite
                /\ ret' = RetFalse

\* rate_book that also marks the rated record as read
rate_book_marks_read(book_id, rating, w) ==
    LET i == get_book_index(books, book_id) IN
    /\ op' = "rate_book"
    /\ arg' = [NoArg EXCEPT !.id = book_id, !.rating = rating]
    /\ UNCHANGED issued
    /\ lastAdded' = 0
    /\ IF ~(0 <= rating /\ rating <= 5)
       THEN /\ w = "ok"
            /\ UNCHANGED books
            /\ NoWrite
            /\ ret' = RetFalse
       ELSE IF i # 0
       THEN /\ CanWrite(w)
            /\ books' = [books EXCEPT ![i].rating = Some(rating),
                                      ![i].status = STATUS_READ]
            /\ Write(books', w)
            /\ ret' = RetTrue
       ELSE /\ w = "ok"
            /\ UNCHANGED books
            /\ NoWrite
            /\ ret' = RetFalse

\* rate_book: the range check, the lookup, the assignment, the save
rate_book(book_id, rating, w) ==
    LET i == get_book_index(books, book_id) IN
    /\ op' = "rate_book"
    /\ arg' = [NoArg EXCEPT !.id = book_id, !.rating = rating]
    /\ UNCHANGED issued
    /\ lastAdded' = 0
    /\ IF ~(0 <= rating /\ rating <= 5)
       THEN /\ w = "ok"
            /\ UNCHANGED books
            /\ NoWrite
            /\ ret' = RetFalse
       ELSE IF i # 0
       THEN /\ CanWrite(w)
            /\ books' = [books EXCEPT ![i].rating = Some(rating)]
            /\ Write(books', w)
            /\ ret' = RetTrue
       ELSE /\ w = "ok"
            /\ UNCHANGED books
            /\ NoWrite
            /\ ret' = RetFalse

RateBook ==
    /\ AtMenu
    /\ \E book_id \in IdInputs, rating \in RatingInputs, w \in WriteOutcomes :
        rate_book(book_id, rating, w)

\* delete_book that filters the collection and saves whether or not it found the record
DeleteBookAlwaysSaves ==
    /\ AtMenu
    /\ \E book_id \in IdInputs, w \in WriteOutcomes :
        LET i == get_book_index(books, book_id) IN
        /\ op' = "delete_book"
        /\ arg' = [NoArg EXCEPT !.id = book_id]
        /\ UNCHANGED issued
        /\ lastAdded' = 0
        /\ CanWrite(w)
        /\ books' = IF i # 0 THEN RemoveAt(books, i) ELSE books
        /\ Write(books', w)
        /\ ret' = RetBool(i # 0)

DeleteBook ==
    /\ AtMenu
    /\ \E book_id \in IdInputs, w \in WriteOutcomes :
        LET i == get_book_index(books, book_id) IN
        /\ op' = "delete_book"
        /\ arg' = [NoArg EXCEPT !.id = book_id]
        /\ UNCHANGED issued
        /\ lastAdded' = 0
        /\ IF i # 0
           THEN /\ CanWrite(w)
                /\ books' = RemoveAt(books, i)
                /\ Write(books', w)
                /\ ret' = RetTrue
           ELSE /\ w = "ok"
                /\ UNCHANGED books
                /\ NoWrite
                /\ ret' = RetFalse

----------------------------------------------------------------------------
(* Read-only operations of LibraryAgent, as calls *)

FilterInputs == {FILTER_ALL, STATUS_READ, STATUS_UNREAD}
QueryInputs == {<<"a">>, <<" ", "A", " ">>, <<"z", "z">>}
SearchFields == {"title", "author", "genre"}
GenreInputs == {None, Some(<<"X">>)}
MinRatings == {0, 4}
AnyRatings == {0, 3, 5}

\* a read-only call that keeps the list it returns as the collection
QueryKeepsList(o) ==
    /\ op' = o.q
    /\ arg' = NoArg
    /\ ret' = RetNone
    /\ out' = o
    /\ NoWrite
    /\ UNCHANGED <<movies, mfile, magent, mcall, other>>
    /\ books' = IF o.q \in {"list_books", "search_books", "get_recommendations"}
                THEN o.list ELSE books
    /\ UNCHANGED issued
    /\ lastAdded' = 0

\* a read-only call returns: nothing of the agent or of the file is assigned
Query(o) ==
    /\ op' = o.q
    /\ arg' = NoArg
    /\ ret' = RetNone
    /\ out' = o
    /\ NoWrite
    /\ UNCHANGED <<movies, mfile, magent, mcall, other>>
    /\ UNCHANGED <<books, issued>>
    /\ lastAdded' = 0

ListBooks ==
    /\ AtMenu
    /\ \E filter_by \in FilterInputs :
        Query([NoOut EXCEPT !.q = "list_books", !.filter_by = filter_by,
                            !.list = list_books(books, filter_by)])

SearchBooks ==
    /\ AtMenu
    /\ \E query \in QueryInputs, search_by \in SearchFields :
        Query([NoOut EXCEPT !.q = "search_books", !.query = query,
                            !.search_by = search_by,
                            !.list = search_books(books, query, search_by)])

GetRecommendations ==
    /\ AtMenu
    /\ \E genre \in GenreInputs, min_rating \in MinRatings :
        Query([NoOut EXCEPT !.q = "get_recommendations", !.genre = genre,
                            !.min_rating = min_rating,
                            !.list = get_recommendations(books, genre, min_rating)])

OrganizeByGenre ==
    /\ AtMenu
    /\ LET d == organize_by_genre(books) IN
       Query([NoOut EXCEPT !.q = "organize_by_genre", !.keys = d.keys, !.groups = d.groups])

OrganizeByAuthor ==
    /\ AtMenu
    /\ LET d == organize_by_author(books) IN
       Query([NoOut EXCEPT !.q = "organize_by_author", !.keys = d.keys, !.groups = d.groups])

GetStatistics ==
    /\ AtMenu
    /\ Query([NoOut EXCEPT !.q = "get_statistics", !.stats = get_statistics(books)])

\* rate_book with any valid rating, the storage being writable
RateAnyBook ==
    /\ AtMenu
    /\ \E book_id \in 1..MaxLen, rating \in AnyRatings :
        rate_book(book_id, rating, "ok")
    /\ UNCHANGED others

\* a status that is none of unread, reading, read
FINISHED == <<"f", "i", "n", "i", "s", "h", "e", "d">>

AnyStatuses == {FINISHED}

\* update_status of the first record with a status of the caller's choice,
\* the storage being writable
UpdateAnyStatus ==
    /\ AtMenu
    /\ \E status \in AnyStatuses : update_status(1, status, "ok")
    /\ UNCHANGED others

----------------------------------------------------------------------------
(* Operations of MovieAgent.  A call that an exception leaves is recorded  *)
(* with the tag "Raise".                                                   *)

Called(name, title, tag) == [NoCall EXCEPT !.op = name, !.title = title, !.tag = tag]

\* what the services answer
GhibliOk(films) == [error |-> "none", status_code |-> 200, json_ok |-> TRUE, films |-> films]

GhibliTimeout == [error |-> "timeout", status_code |-> 0, json_ok |-> FALSE, films |-> << >>]

GhibliFound ==
    GhibliOk(<< [title |-> Some(<<"T">>), rt_score |-> Some(<<"8", "0">>),
                 release_date |-> Some(YEAR_1988)] >>)

GhibliNoScore ==
    GhibliOk(<< [title |-> Some(<<"T">>), rt_score |-> None,
                 release_date |-> Some(YEAR_1988)] >>)

GhibliResponses ==
    {GhibliTimeout,
     [GhibliTimeout EXCEPT !.error = "none", !.status_code = 404],
     [GhibliTimeout EXCEPT !.error = "none", !.status_code = 200],
     GhibliFound,
     GhibliNoScore,
     GhibliOk(<< [title |-> None, rt_score |-> None, release_date |-> None] >>)}

OmdbData(response, rating, year) ==
    [error |-> "none", json_ok |-> TRUE, is_object |-> TRUE,
     data |-> [Response |-> response, imdbRating |-> rating, Title |-> Some(<<"T">>),
               Genre |-> Some(ANIMATION \o <<",", " ", "H">>), Year |-> year]]

OmdbTimeout == [OmdbData(None, None, None) EXCEPT !.error = "timeout"]

OmdbFound == OmdbData(Some(TRUE_TEXT), Some(<<"8", ".", "0">>), Some(YEAR_1988 \o <<"-">>))

OmdbResponses ==
    {OmdbTimeout,
     [OmdbData(None, None, None) EXCEPT !.json_ok = FALSE],
     [OmdbData(None, None, None) EXCEPT !.is_object = FALSE],
     OmdbData(Some(<<"F", "a", "l", "s", "e">>), None, None),
     OmdbFound,
     OmdbData(Some(TRUE_TEXT), Some(<<"x">>), None)}

\* the answers of the two services to one add_movie_from_api
ApiAnswers ==
    {[ghibli |-> GhibliFound, omdb |-> OmdbTimeout],
     [ghibli |-> GhibliTimeout, omdb |-> OmdbFound],
     [ghibli |-> GhibliTimeout, omdb |-> OmdbTimeout],
     [ghibli |-> GhibliNoScore, omdb |-> OmdbFound]}

BookData(title, authors) ==
    [error |-> "none", status_code |-> 200, json_ok |-> TRUE, found |-> TRUE,
     book_data |-> [title |-> title, authors |-> authors,
                    publish_date |-> Some(<<"M", " ">> \o YEAR_TEXT)]]

BookResponses ==
    {[BookData(None, << >>) EXCEPT !.error = "timeout"],
     [BookData(None, << >>) EXCEPT !.error = "connection"],
     [BookData(None, << >>) EXCEPT !.status_code = 500],
     [BookData(None, << >>) EXCEPT !.json_ok = FALSE],
     [BookData(None, << >>) EXCEPT !.found = FALSE],
     BookData(Some(<<"A", QUOTE>>), << Some(<<"B">>) >>),
     BookData(None, << >>),
     BookData(Some(<<"A", QUOTE>>), << None >>)}

OmdbKeys == {None, Some(<<"k">>)}
JsonErrorIsRequestException == BOOLEAN

MovieInputs ==
    {[title |-> <<"T">>, genre |-> ANIMATION, rating |-> 8, year |-> 1988],
     [title |-> <<"t">>, genre |-> ANIMATION, rating |-> 11, year |-> 1988]}

TitleInputs == {<<"T">>, <<"x">>}

\* what may be at data_path before the program starts
InitialFiles == {NoFile, EmptyListFile, PartialFile, UndecodableFile}

\* the record of a write: the file, the count of failed writes, the outcome
MovieWrite(ms, w) ==
    /\ mfile' = save_movies_file(ms, mfile, magent.use_session_state, w)
    /\ fails' = IF w = "ok" THEN fails ELSE fails + 1

\* the outcomes save_movies can have: none but "ok" when it does not write
CanSave(w) == IF magent.use_session_state THEN w = "ok" ELSE CanWrite(w)

\* what save_movies did to the file, as the call record keeps it
Wrote(w) ==
    IF magent.use_session_state THEN "none" ELSE IF w = "ok" THEN "ok" ELSE "fail"

NoMovieWrite == mfile' = mfile /\ fails' = fails

MovieIdle == magent.live /\ AtMenu

CanAddMovie == Len(movies) < MaxMovies

\* the arguments use_session_state and session_movies of the constructor
SessionArgs ==
    {[use_session_state |-> FALSE, session_movies |-> None],
     [use_session_state |-> TRUE, session_movies |-> None],
     [use_session_state |-> TRUE, session_movies |-> Some(<< >>)]}

\* MovieAgent(...): the list of the session when there is one, otherwise
\* _ensure_data_directory, then load_movies over data_path
new_movie_agent(key, s, w) ==
    IF s.use_session_state /\ s.session_movies # None
    THEN /\ w = "ok"
         /\ movies' = s.session_movies[1]
         /\ magent' = [live |-> TRUE, omdb_api_key |-> key,
                       use_session_state |-> TRUE]
         /\ NoMovieWrite
         /\ mcall' = Called("__init__", << >>, "None")
    ELSE LET e == ensure_data_directory(mfile, w)
             l == load_movies(e.file)
         IN  /\ IF mfile.state = "missing" THEN CanWrite(w) ELSE w = "ok"
             /\ mfile' = e.file
             /\ fails' = IF w = "ok" THEN fails ELSE fails + 1
             /\ IF e.raised \/ l.raised
                THEN /\ UNCHANGED <<movies, magent>>
                     /\ mcall' = [Called("__init__", << >>, "Raise")
                                     EXCEPT !.write = IF e.raised THEN "fail" ELSE "none"]
                ELSE /\ movies' = l.movies
                     /\ magent' = [live |-> TRUE, omdb_api_key |-> key,
                                   use_session_state |-> s.use_session_state]
                     /\ mcall' = [Called("__init__", << >>, "None")
                                     EXCEPT !.write = IF mfile.state = "missing"
                                                      THEN "ok" ELSE "none"]

NewMovieAgent ==
    /\ AtMenu
    /\ \E key \in OmdbKeys, s \in SessionArgs, w \in WriteOutcomes :
        new_movie_agent(key, s, w)

\* the OMDB_API_KEY of the environment the Streamlit script runs in
EnvironmentKeys == {None}

\* streamlit_app.py, first run of the script in a browser session: the
\* session's MovieAgent is constructed over the shared data/movies.json
StreamlitSession ==
    /\ AtMenu
    /\ ~magent.live
    /\ \E omdb_key \in EnvironmentKeys, w \in WriteOutcomes :
        new_movie_agent(omdb_key, [use_session_state |-> FALSE, session_movies |-> None], w)

\* the next script run is that of the other browser session, which has its
\* own st.session_state and hence its own MovieAgent
OtherSession ==
    /\ AtMenu
    /\ movies' = other.movies
    /\ magent' = other.magent
    /\ other' = [magent |-> magent, movies |-> movies]
    /\ UNCHANGED <<mfile, fails, mcall>>

\* add_movie: build the dictionary, append, save, return it
AddMovie ==
    /\ MovieIdle
    /\ CanAddMovie
    /\ \E in \in MovieInputs, w \in WriteOutcomes :
        LET movie == NewMovie(in.title, in.genre, in.rating, in.year, FALSE) IN
        /\ CanSave(w)
        /\ movies' = Append(movies, movie)
        /\ MovieWrite(movies', w)
        /\ mcall' = [Called("add_movie", in.title,
                            IF save_movies_raises(w) THEN "Raise" ELSE "Found")
                        EXCEPT !.movie = Some(movie),
                               !.write = Wrote(w)]
        /\ UNCHANGED magent

\* the first record with the title, 0 if there is none
FirstWithTitle(ms, title) ==
    IF \E i \in 1..Len(ms) : SameTitle(ms[i], title)
    THEN CHOOSE i \in 1..Len(ms) :
            SameTitle(ms[i], title) /\ \A j \in 1..(i - 1) : ~SameTitle(ms[j], title)
    ELSE 0

MarkAsWatched ==
    /\ MovieIdle
    /\ \E title \in TitleInputs, w \in WriteOutcomes :
        LET i == FirstWithTitle(movies, title) IN
        /\ UNCHANGED magent
        /\ IF i # 0
           THEN /\ CanSave(w)
                /\ movies' = [movies EXCEPT ![i].watched = TRUE]
                /\ MovieWrite(movies', w)
                /\ mcall' = [Called("mark_as_watched", title,
                                    IF save_movies_raises(w) THEN "Raise" ELSE "True")
                                EXCEPT !.write = Wrote(w)]
           ELSE /\ w = "ok"
                /\ UNCHANGED movies
                /\ NoMovieWrite
                /\ mcall' = Called("mark_as_watched", title, "False")

DeleteMovie ==
    /\ MovieIdle
    /\ \E title \in TitleInputs, w \in WriteOutcomes :
        LET kept == SelectSeq(movies, LAMBDA movie : ~SameTitle(movie, title)) IN
        /\ UNCHANGED magent
        /\ movies' = kept
        /\ IF Len(kept) < Len(movies)
           THEN /\ CanSave(w)
                /\ MovieWrite(kept, w)
                /\ mcall' = [Called("delete_movie", title,
                                    IF save_movies_raises(w) THEN "Raise" ELSE "True")
                                EXCEPT !.write = Wrote(w)]
           ELSE /\ w = "ok"
                /\ NoMovieWrite
                /\ mcall' = Called("delete_movie", title, "False")

\* add_movie_from_api: the lookup, then append and save what it found
AddMovieFromApi ==
    /\ MovieIdle
    /\ \E title \in TitleInputs, a \in ApiAnswers,
          c \in JsonErrorIsRequestException, w \in WriteOutcomes :
        LET movie_data ==
                fetch_movie_from_api(title, magent.omdb_api_key, a.ghibli, a.omdb, c) IN
        /\ UNCHANGED magent
        /\ IF movie_data.tag = "Found"
           THEN /\ CanAddMovie
                /\ CanSave(w)
                /\ movies' = Append(movies, movie_data.movie[1])
                /\ MovieWrite(movies', w)
                /\ mcall' = [Called("add_movie_from_api", title,
                                    IF save_movies_raises(w) THEN "Raise" ELSE "Found")
                                EXCEPT !.movie = movie_data.movie,
                                       !.requests = movie_data.requests,
                                       !.lookup = movie_data.tag,
                                       !.write = Wrote(w)]
           ELSE /\ w = "ok"
                /\ UNCHANGED movies
                /\ NoMovieWrite
                /\ mcall' = [Called("add_movie_from_api", title,
                                    IF movie_data.tag = "Raise" THEN "Raise" ELSE "None")
                                EXCEPT !.requests = movie_data.requests,
                                       !.lookup = movie_data.tag]

\* a lookup returns: nothing of the agent or of the file is assigned
Lookup(name, title, r) ==
    /\ mcall' = [Called(name, title, r.tag) EXCEPT !.movie = r.movie,
                                                   !.requests = r.requests]
    /\ NoMovieWrite
    /\ UNCHANGED <<movies, magent>>

FetchGhibliMovie ==
    /\ MovieIdle
    /\ \E title \in TitleInputs, ghibli \in GhibliResponses,
          c \in JsonErrorIsRequestException :
        Lookup("fetch_ghibli_movie", title, fetch_ghibli_movie(title, ghibli, c))

FetchOmdbMovie ==
    /\ MovieIdle
    /\ \E title \in TitleInputs, omdb \in OmdbResponses :
        Lookup("fetch_omdb_movie", title,
               fetch_omdb_movie(title, magent.omdb_api_key, omdb))

FetchMovieFromApi ==
    /\ MovieIdle
    /\ \E title \in TitleInputs, a \in ApiAnswers, c \in JsonErrorIsRequestException :
        Lookup("fetch_movie_from_api", title,
               fetch_movie_from_api(title, magent.omdb_api_key, a.ghibli, a.omdb, c))

\* LibraryAgent.fetch_book_details
FetchBookDetails ==
    /\ MovieIdle
    /\ \E isbn \in Isbns, resp \in BookResponses :
        Lookup("fetch_book_details", isbn, fetch_book_details(isbn, resp))

MovieGetStatistics ==
    /\ MovieIdle
    /\ mcall' = [Called("get_statistics", << >>, "None")
                    EXCEPT !.stats = movie_get_statistics(movies)]
    /\ NoMovieWrite
    /\ UNCHANGED <<movies, magent>>

SearchByTitle ==
    /\ MovieIdle
    /\ \E title \in TitleInputs :
        mcall' = [Called("search_by_title", title, "None")
                    EXCEPT !.list = search_by_title(movies, title)]
    /\ NoMovieWrite
    /\ UNCHANGED <<movies, magent>>

\* what a MovieAgent call leaves alone
library == <<books, file, op, arg, ret, saved, issued, lastAdded, out>>

\* the caller has the result (or the exception) and is ready for the next call
BackToMenu ==
    /\ ~AtMenu
    /\ op' = "menu"
    /\ arg' = NoArg
    /\ ret' = RetNone
    /\ saved' = "none"
    /\ out' = NoOut
    /\ mcall' = NoCall
    /\ UNCHANGED <<books, file, issued, lastAdded, fails>>
    /\ UNCHANGED <<movies, mfile, magent, other>>

Next ==
    \/ NewAgent /\ UNCHANGED others
    \/ SaveBooks /\ UNCHANGED others
    \/ AddBook /\ UNCHANGED others
    \/ AddBookFromApi /\ UNCHANGED others
    \/ HandleAddBookManual /\ UNCHANGED others
    \/ UpdateStatus /\ UNCHANGED others
    \/ RateBook /\ UNCHANGED others
    \/ DeleteBook /\ UNCHANGED others
    \/ BackToMenu

Spec == Init /\ [][Next]_vars

----------------------------------------------------------------------------
(* The read-only operations over collections of up to MaxLen records.      *)
(* The records are what add_book and update_status store; rate_book rates  *)
(* them.                                                                   *)

QProfiles ==
    <<[title |-> <<"A", "b">>, author |-> <<"Z">>, genre |-> <<"X">>,
       status |-> STATUS_UNREAD],
      [title |-> <<"b", " ", "a">>, author |-> <<"z">>, genre |-> <<"x">>,
       status |-> STATUS_READ],
      [title |-> <<"C">>, author |-> <<"Z">>, genre |-> <<"W">>,
       status |-> STATUS_READING]>>

QBook(id, p) ==
    [NewBook(<< >>, p.title, p.author, p.genre, None, None, TODAY)
        EXCEPT !.id = id, !.status = p.status]

QCollections ==
    UNION {{[i \in 1..n |-> QBook(i, QProfiles[c[i]])] :
                c \in [1..n -> 1..Len(QProfiles)]} : n \in 0..MaxLen}

\* the lists a MovieAgent in session-state mode is constructed over
QMovies ==
    {<< >>,
     << NewMovie(<<"T">>, <<"G">>, 8, 1988, FALSE) >>,
     << NewMovie(<<"T">>, <<"G">>, 8, 1988, TRUE), NewMovie(<<"t", "x">>, <<"H">>, 7, 1999, FALSE) >>}

InitQ ==
    /\ books \in QCollections
    /\ file = save_books_file(books, NoFile, "ok")
    /\ op = "menu"
    /\ arg = NoArg
    /\ ret = RetNone
    /\ saved = "none"
    /\ issued = {books[i].id : i \in 1..Len(books)}
    /\ lastAdded = 0
    /\ fails = 0
    /\ out = NoOut
    /\ movies \in QMovies
    /\ mfile = NoFile
    /\ magent = [live |-> TRUE, omdb_api_key |-> None, use_session_state |-> TRUE]
    /\ mcall = NoCall
    /\ other = NoSession

NextQ ==
    \/ RateAnyBook
    \/ UpdateAnyStatus
    \/ ListBooks
    \/ SearchBooks
    \/ GetRecommendations
    \/ OrganizeByGenre
    \/ OrganizeByAuthor
    \/ GetStatistics
    \/ BackToMenu
    \/ MovieGetStatistics /\ UNCHANGED <<library, other>>
    \/ SearchByTitle /\ UNCHANGED <<library, other>>

SpecQ == InitQ /\ [][NextQ]_vars

----------------------------------------------------------------------------
(* The MovieAgent and the enrichment adapters, from whatever is at         *)
(* data_path when the program starts.                                      *)

InitM ==
    /\ file = NoFile
    /\ books = load_books(NoFile)
    /\ op = "menu"
    /\ arg = NoArg
    /\ ret = RetNone
    /\ saved = "none"
    /\ issued = {}
    /\ lastAdded = 0
    /\ fails = 0
    /\ out = NoOut
    /\ movies = << >>
    /\ mfile \in InitialFiles
    /\ magent = NoAgent
    /\ mcall = NoCall
    /\ other = NoSession

NextM ==
    \/ NewMovieAgent /\ UNCHANGED <<library, other>>
    \/ AddMovie /\ UNCHANGED <<library, other>>
    \/ MarkAsWatched /\ UNCHANGED <<library, other>>
    \/ DeleteMovie /\ UNCHANGED <<library, other>>
    \/ AddMovieFromApi /\ UNCHANGED <<library, other>>
    \/ FetchGhibliMovie /\ UNCHANGED <<library, other>>
    \/ FetchOmdbMovie /\ UNCHANGED <<library, other>>
    \/ FetchMovieFromApi /\ UNCHANGED <<library, other>>
    \/ FetchBookDetails /\ UNCHANGED <<library, other>>
    \/ BackToMenu

SpecMovie == InitM /\ [][NextM]_vars

----------------------------------------------------------------------------
(* Two browser sessions of the Streamlit page, each with its own           *)
(* MovieAgent over the one data/movies.json; the script runs of the two    *)
(* sessions interleave call by call.                                       *)

NextS ==
    \/ StreamlitSession /\ UNCHANGED <<library, other>>
    \/ OtherSession /\ UNCHANGED library
    \/ AddMovie /\ UNCHANGED <<library, other>>
    \/ MarkAsWatched /\ UNCHANGED <<library, other>>
    \/ DeleteMovie /\ UNCHANGED <<library, other>>
    \/ BackToMenu

SpecShared == InitM /\ [][NextS]_vars

----------------------------------------------------------------------------
(* The two add-from-API operations, the lookup included, over what the     *)
(* services may answer.                                                    *)

\* the publish dates Open Library may report; None: the body has none
PublishDates ==
    {Some(<<"M", " ">> \o YEAR_TEXT),
     Some(YEAR_TEXT \o <<" ">>),
     Some(YEAR_TEXT \o <<" ", "M">>),
     Some(<<" ">>),
     None}

\* what Open Library answers to the lookup of add_book_from_api
IsbnResponses ==
    {[BookData(None, << >>) EXCEPT !.error = "timeout"],
     [BookData(None, << >>) EXCEPT !.found = FALSE]}
    \cup {[BookData(Some(<<"A">>), << Some(<<"B">>) >>)
                EXCEPT !.book_data.publish_date = publish_date] :
            publish_date \in PublishDates}

\* add_book_from_api over the answer of the service
AddBookFromApiResponse ==
    /\ AtMenu
    /\ \E isbn \in Isbns, resp \in IsbnResponses, today \in Dates, w \in WriteOutcomes :
        add_book_from_api(isbn, fetch_book_details(isbn, resp).movie, today, w)

\* an empty library, and a MovieAgent constructed over an empty list file
InitA ==
    /\ file = NoFile
    /\ books = load_books(NoFile)
    /\ op = "menu"
    /\ arg = NoArg
    /\ ret = RetNone
    /\ saved = "none"
    /\ issued = {}
    /\ lastAdded = 0
    /\ fails = 0
    /\ out = NoOut
    /\ mfile = EmptyListFile
    /\ movies = load_movies(mfile).movies
    /\ magent \in {[live |-> TRUE, omdb_api_key |-> key, use_session_state |-> FALSE] :
                        key \in OmdbKeys}
    /\ mcall = NoCall
    /\ other = NoSession

NextA ==
    \/ AddBookFromApiResponse /\ UNCHANGED others
    \/ AddMovieFromApi /\ UNCHANGED <<library, other>>
    \/ BackToMenu

SpecApi == InitA /\ [][NextA]_vars

----------------------------------------------------------------------------
(* Properties *)

Ids(bs) == {bs[i].id : i \in 1..Len(bs)}

LargestId(bs) == CHOOSE m \in Ids(bs) : \A n \in Ids(bs) : n <= m

\* the call that has just returned ran add_book to its end
Added == ret.tag = "Book"

AddedId == ret.book[1].id

InRange(r) == 0 <= r /\ r <= 5

Blank(s) == Strip(s) = << >>

\* the calls that change the collection and save it
MutatingOps == {"add_book", "update_status", "rate_book", "delete_book"}

\* C1: the identifier add_book assigns was never the identifier of a record
\* added before, deleted or not.
C1_NeverReused == [][Added' => AddedId' \notin issued]_vars

\* C2: add_book assigns 1 to the first record of an empty collection and
\* otherwise the largest identifier of the collection plus 1; an add_book
\* that directly follows an add_book receives the next identifier.
C2_NextIdentifier ==
    [][Added' =>
        /\ AddedId' = (IF books = << >> THEN 1 ELSE LargestId(books) + 1)
        /\ (lastAdded # 0 => AddedId' = lastAdded + 1)]_vars

C2_Witness == Added /\ AddedId = 2 /\ Len(books) = 2 /\ books[1].id = 1

\* C3: no two records of the in-memory collection have the same identifier.
C3_UniqueIds ==
    \A i, j \in 1..Len(books) : i # j => books[i].id # books[j].id

C3_Witness == Len(books) = 2 /\ books[2].rating # None /\ op = "update_status"

\* C4: after add_book, update_status, rate_book or delete_book has reported
\* success and its write has succeeded, the file holds the text of the
\* complete in-memory collection.
C4_Persisted ==
    (op \in MutatingOps /\ saved = "ok" /\ ret.tag \in {"True", "Book"}) =>
        /\ file.state = "ok"
        /\ file.text = JsonDump(books)

C4_Witness ==
    op = "rate_book" /\ saved = "ok" /\ ret = RetTrue /\ Len(books) = 2 /\ fails = 1

\* C5: after a successful save_books, load_books of a fresh instance over
\* the same file gives the collection that was saved: same records, same
\* field values, same order.
C5_RoundTrip == saved = "ok" => load_books(file) = books

C5_Witness ==
    /\ op = "save_books"
    /\ saved = "ok"
    /\ Len(books) = 2
    /\ books[1].year = None
    /\ books[2].rating # None
    /\ file.text # JsonDump(load_books(NoFile))

\* C6: rate_book with a rating outside [0, 5] returns False and leaves the
\* collection and the file as they were, whether or not the identifier exists.
C6_RatingRejected ==
    [][(op' = "rate_book" /\ ~InRange(arg'.rating)) =>
        /\ ret' = RetFalse
        /\ books' = books
        /\ file' = file]_vars

C6_Witness ==
    /\ op = "rate_book"
    /\ arg.rating = 6
    /\ get_book_by_id(books, arg.id) # None
    /\ ret = RetFalse

\* C7: add_book with a title or an author that is empty after trimming is
\* rejected: None is returned, the collection and the file are unchanged
\* and no identifier is consumed.
C7_AddRejectsBlank ==
    [][(op' = "add_book" /\ (Blank(arg'.title) \/ Blank(arg'.author))) =>
        /\ ret' = RetNone
        /\ books' = books
        /\ file' = file
        /\ issued' = issued]_vars

\* C8: when the write inside add_book, update_status, rate_book or
\* delete_book fails, the value returned is not the value returned when
\* the write succeeds.
C8_FailureReported ==
    (op \in MutatingOps /\ saved = "fail") =>
        ret # (IF op = "add_book" THEN RetBook(books[Len(books)]) ELSE RetTrue)

\* C9: delete_book, update_status and rate_book (with a rating in range)
\* given an identifier that is not in the collection return False and leave
\* the collection and the file as they were.
C9_NotFound ==
    [][(/\ op' \in {"delete_book", "update_status", "rate_book"}
        /\ (op' = "rate_book" => InRange(arg'.rating))
        /\ arg'.id \notin Ids(books)) =>
        /\ ret' = RetFalse
        /\ books' = books
        /\ file' = file]_vars

C9_Witness ==
    /\ op = "delete_book"
    /\ arg.id \notin Ids(books)
    /\ ret = RetFalse
    /\ Len(books) >= 1
    /\ file.text # JsonDump(books)

\* C10: get_book_by_id of the identifier of the record add_book has just
\* returned gives a record equal to it.
C10_AddThenGet == Added => get_book_by_id(books, AddedId) = ret.book

C10_Witness == Added /\ Len(books) = 2 /\ books[1].rating # None

----------------------------------------------------------------------------
(* Properties of the read-only operations *)

Rated(bs) == SelectSeq(bs, LAMBDA book : book.rating # None)

\* C11: the average_rating get_statistics reports is the mean, to two
\* decimals, of the ratings of all records whose rating is set, and 0 when no
\* record has one.
C11_MeanOfSetRatings ==
    out.q = "get_statistics" =>
        out.stats.average_rating =
            IF Rated(books) = << >> THEN 0
            ELSE Round2(SumRatings(Rated(books)), Len(Rated(books)))

\* C12: a successful rate_book changes only the rating of the targeted
\* record and a successful update_status only its status: every other field
\* of that record, every other record, and the length and order of the
\* collection are as before.
C12_OnlyTheTargetField ==
    [][/\ (op' = "rate_book" /\ ret' = RetTrue) =>
            /\ Len(books') = Len(books)
            /\ \A j \in 1..Len(books) :
                books'[j] = IF books[j].id = arg'.id
                            THEN [books[j] EXCEPT !.rating = books'[j].rating]
                            ELSE books[j]
       /\ (op' = "update_status" /\ ret' = RetTrue) =>
            /\ Len(books') = Len(books)
            /\ \A j \in 1..Len(books) :
                books'[j] = IF books[j].id = arg'.id
                            THEN [books[j] EXCEPT !.status = books'[j].status]
                            ELSE books[j]]_vars

C12_Witness ==
    /\ op = "rate_book"
    /\ ret = RetTrue
    /\ Len(books) = 2
    /\ arg.id = books[2].id
    /\ books[2].rating # None
    /\ books[2].status = STATUS_UNREAD
    /\ books[1].status = STATUS_READ

QueryOps ==
    {"list_books", "search_books", "get_recommendations", "organize_by_genre",
     "organize_by_author", "get_statistics"}

\* C14: list_books, search_books, get_recommendations, organize_by_genre,
\* organize_by_author and get_statistics leave the collection (records,
\* field values, order) and the backing file as they were before the call.
C14_QueriesDoNotMutate ==
    [][op' \in QueryOps => (books' = books /\ file' = file)]_vars

C14_Witness ==
    /\ op = "get_recommendations"
    /\ Len(books) = 2
    /\ Len(out.list) = 2
    /\ out.list[1] = books[2]
    /\ out.list[2] = books[1]
    /\ file.text = JsonDump(books)

\* the record is one the call should recommend, as C15 states it
Recommended(book, genre, min_rating) ==
    /\ book.rating # None
    /\ book.rating[1] >= min_rating
    /\ (genre # None => book.genre = genre[1])

\* C15: get_recommendations(genre, min_rating) returns exactly the records
\* whose rating is set and is at least min_rating and, when a genre is given,
\* whose genre equals it; the result is ordered from the highest rating to
\* the lowest.
C15_Recommendations ==
    out.q = "get_recommendations" =>
        /\ \A i \in 1..Len(books) :
            Recommended(books[i], out.genre, out.min_rating)
                <=> (\E k \in 1..Len(out.list) : out.list[k] = books[i])
        /\ \A k \in 1..Len(out.list) : \E i \in 1..Len(books) : out.list[k] = books[i]
        /\ \A k, l \in 1..Len(out.list) : out.list[k] = out.list[l] => k = l
        /\ \A k \in 1..(Len(out.list) - 1) :
            out.list[k].rating[1] >= out.list[k + 1].rating[1]

\* the field of the record contains the text, whatever the case of either
ContainsIgnoringCase(book, name, text) ==
    Contains(Lower(Field(book, name)), Lower(text))

\* C16 as stated: search_books(query, field) returns, in collection order,
\* exactly the records whose field contains the query as a case-insensitive
\* substring.
C16_SearchAsPassed ==
    out.q = "search_books" =>
        out.list = SelectSeq(books,
                       LAMBDA book : ContainsIgnoringCase(book, out.search_by, out.query))

\* C16: search_books(query, field) returns, in collection order, exactly the
\* records whose field contains the query, stripped of the whitespace around
\* it, as a case-insensitive substring; it returns the empty list when no
\* record does.
C16_SearchStripped ==
    out.q = "search_books" =>
        out.list = SelectSeq(books,
                       LAMBDA book : ContainsIgnoringCase(book, out.search_by, Strip(out.query)))

C16_Witness ==
    /\ op = "search_books"
    /\ out.query = <<" ", "A", " ">>
    /\ out.search_by = "title"
    /\ Len(books) = 2
    /\ out.list = << books[2] >>

RECURSIVE SumOfLengths(_)
SumOfLengths(groups) ==
    IF groups = << >> THEN 0 ELSE Len(Head(groups)) + SumOfLengths(Tail(groups))

GroupedField == IF out.q = "organize_by_genre" THEN "genre" ELSE "author"

\* C17: the keys of the mapping organize_by_genre and organize_by_author
\* return are exactly the distinct values of the field in the collection,
\* each key is mapped to the records having that value in collection order,
\* every record is in exactly one group and the group sizes sum to the length
\* of the collection.
C17_Grouping ==
    out.q \in {"organize_by_genre", "organize_by_author"} =>
        /\ Len(out.groups) = Len(out.keys)
        /\ \A k, l \in 1..Len(out.keys) : out.keys[k] = out.keys[l] => k = l
        /\ {out.keys[k] : k \in 1..Len(out.keys)}
                = {Field(books[i], GroupedField) : i \in 1..Len(books)}
        /\ \A k \in 1..Len(out.keys) :
            out.groups[k] = SelectSeq(books,
                                LAMBDA book : Field(book, GroupedField) = out.keys[k])
        /\ \A i \in 1..Len(books) :
            Cardinality({k \in 1..Len(out.groups) :
                            \E j \in 1..Len(out.groups[k]) : out.groups[k][j] = books[i]}) = 1
        /\ SumOfLengths(out.groups) = Len(books)

C17_Witness ==
    /\ op = "organize_by_author"
    /\ Len(books) = 2
    /\ books[1].genre # books[2].genre
    /\ Len(out.keys) = 1
    /\ out.groups[1] = books

\* C13: on an empty collection get_statistics returns total 0, average
\* rating 0, distinct-genre count 0 and every per-status count 0, in
\* LibraryAgent and in MovieAgent, without an exception; list_books,
\* search_books, get_recommendations and the groupings return nothing.
C13_EmptyCollection ==
    /\ (books = << >> /\ out.q = "get_statistics") =>
            /\ out.stats.total_books = 0
            /\ out.stats.average_rating = 0
            /\ out.stats.unique_genres = 0
            /\ out.stats.read = 0
            /\ out.stats.reading = 0
            /\ out.stats.unread = 0
    /\ (books = << >> /\ out.q \in {"list_books", "search_books", "get_recommendations"}) =>
            out.list = << >>
    /\ (books = << >> /\ out.q \in {"organize_by_genre", "organize_by_author"}) =>
            (out.keys = << >> /\ out.groups = << >>)
    /\ (movies = << >> /\ mcall.op = "get_statistics") =>
            /\ mcall.tag # "Raise"
            /\ mcall.stats.total = 0
            /\ mcall.stats.avg_rating = 0
            /\ mcall.stats.genres = 0
            /\ mcall.stats.watched = 0
            /\ mcall.stats.unwatched = 0
    /\ (movies = << >> /\ mcall.op = "search_by_title") => mcall.list = << >>

C13_Witness ==
    /\ books = << >>
    /\ movies = << >>
    /\ mcall.op = "get_statistics"
    /\ mcall.stats.total = 0

----------------------------------------------------------------------------
(* Properties of MovieAgent and of the enrichment adapters *)

\* C18: load_movies, run by the constructor once the file is ensured,
\* returns the empty list when the file is missing or its content is
\* malformed and the stored records otherwise, and no exception leaves it.
C18_LoadNeverCrashes ==
    (mcall.op = "__init__" /\ mcall.write # "fail") =>
        /\ mcall.tag # "Raise"
        /\ ~magent.use_session_state =>
                IF mfile.state = "ok" THEN JsonDumpMovies(movies) = mfile.text
                ELSE movies = << >>

MovieWritingOps == {"add_movie", "mark_as_watched", "delete_movie", "add_movie_from_api"}

\* C19: add_movie, mark_as_watched, delete_movie and add_movie_from_api
\* return without an exception when the write of the backing file fails.
C19_WriteFailureContained ==
    (mcall.op \in MovieWritingOps /\ mcall.write = "fail") => mcall.tag # "Raise"

Adapters == {"fetch_book_details", "fetch_ghibli_movie", "fetch_omdb_movie"}

\* C20: fetch_book_details, fetch_ghibli_movie and fetch_omdb_movie return
\* what they found or None; no exception leaves them, whatever the service
\* answers.
C20_AdaptersNeverRaise == mcall.op \in Adapters => mcall.tag # "Raise"

\* C29: a MovieAgent constructed with use_session_state=True never creates
\* or writes the backing file: its construction, add_movie,
\* add_movie_from_api, mark_as_watched and delete_movie leave the file as it
\* was.
C29_SessionStateNeverWrites ==
    [][/\ (mcall'.op = "__init__" /\ mcall'.tag # "Raise" /\ magent'.use_session_state)
            => mfile' = mfile
       /\ (mcall'.op \in MovieWritingOps /\ magent.use_session_state)
            => mfile' = mfile]_vars

C25_MovieRatingInRange ==
    \A i \in 1..Len(movies) : 0 <= movies[i].rating /\ movies[i].rating <= 1000

\* the records of the list whose title is not the given one, whatever the case
WithoutTitle(ms, title) ==
    SelectSeq(ms, LAMBDA movie : Lower(movie.title) # Lower(title))

\* C30: delete_movie(title) removes every record whose title equals title
\* ignoring case and keeps the others in their order, returns True exactly
\* when a record was removed and writes the file only then;
\* mark_as_watched(title) returns True exactly when the title of some record
\* equals title ignoring case.
C30_DeleteByTitle ==
    [][/\ mcall'.op = "delete_movie" =>
            /\ movies' = WithoutTitle(movies, mcall'.title)
            /\ mcall'.tag = (IF Len(movies') < Len(movies) THEN "True" ELSE "False")
            /\ mfile' # mfile => Len(movies') < Len(movies)
       /\ mcall'.op = "mark_as_watched" =>
            mcall'.tag = (IF \E i \in 1..Len(movies) :
                                Lower(movies[i].title) = Lower(mcall'.title)
                          THEN "True" ELSE "False")]_vars

\* C28: delete_book of an identifier that is in the collection removes the
\* one record with that identifier and keeps the others in their order,
\* leaves the file holding the remaining collection and returns True.
C28_DeletePresent ==
    [][(op' = "delete_book" /\ arg'.id \in Ids(books)) =>
        /\ Len(books') = Len(books) - 1
        /\ books' = SelectSeq(books, LAMBDA book : book.id # arg'.id)
        /\ file'.state = "ok"
        /\ file'.text = JsonDump(books')
        /\ ret' = RetTrue]_vars

\* C24: the rating of every book of the collection is unset (None) or lies
\* within [0, 5].
C24_BookRatingInRange ==
    \A i \in 1..Len(books) : books[i].rating = None \/ InRange(books[i].rating[1])

C24_Witness ==
    /\ op = "rate_book"
    /\ ret = RetTrue
    /\ Len(books) = 2
    /\ books[1].rating = None
    /\ books[2].rating = Some(arg.rating)
    /\ books[2].isbn # None

STATUSES == {STATUS_UNREAD, STATUS_READING, STATUS_READ}

\* C27: the status of every book of the collection is one of unread,
\* reading, read, and the read, reading and unread counts of get_statistics
\* sum to total_books.
C27_StatusesPartition ==
    /\ \A i \in 1..Len(books) : books[i].status \in STATUSES
    /\ out.q = "get_statistics" =>
            out.stats.read + out.stats.reading + out.stats.unread = out.stats.total_books

\* C26: when the lookup finds nothing, add_book_from_api and
\* add_movie_from_api return None, add no record, consume no identifier and
\* do not write the backing file.
C26_NotFoundAddsNothing ==
    [][/\ (op' = "add_book_from_api" /\ arg'.details = None) =>
            /\ ret' = RetNone
            /\ books' = books
            /\ issued' = issued
            /\ file' = file
       /\ (mcall'.op = "add_movie_from_api" /\ mcall'.lookup = "None") =>
            /\ mcall'.tag = "None"
            /\ movies' = movies
            /\ mfile' = mfile]_vars

C26_Witness ==
    /\ mcall.op = "add_movie_from_api"
    /\ mcall.lookup = "None"
    /\ mcall.requests = 2
    /\ Len(movies) = 1
    /\ Len(books) = 1
    /\ file.state = "ok"

\* the text has a character that is not whitespace
HasToken(s) == \E k \in 1..Len(s) : s[k] # SPACE

\* the last maximal run of non-whitespace characters of the text
LastToken(s) ==
    LET j == CHOOSE k \in 1..Len(s) :
                s[k] # SPACE /\ \A l \in (k + 1)..Len(s) : s[l] = SPACE
        i == CHOOSE k \in 1..j :
                /\ \A l \in k..j : s[l] # SPACE
                /\ k > 1 => s[k - 1] = SPACE
    IN  SubSeq(s, i, j)

\* the digits of the text, its sign left out
Unsigned(t) == IF t # << >> /\ t[1] \in {"-", "+"} THEN Tail(t) ELSE t

\* the text is a decimal integer: digits, possibly after one sign
IntegerText(t) ==
    /\ Unsigned(t) # << >>
    /\ \A k \in 1..Len(Unsigned(t)) : IsDigit(Unsigned(t)[k])

IntegerValue(t) ==
    IF t[1] = "-" THEN 0 - StrToNat(Unsigned(t)) ELSE StrToNat(Unsigned(t))

\* C23: the record add_book_from_api adds has as year the integer value of
\* the last whitespace-separated token of the fetched publish date, None when
\* that token is no integer or the date has no token, and has the genre
\* "Unknown".
C23_YearFromPublishDate ==
    (op = "add_book_from_api" /\ arg.details # None) =>
        LET date == arg.details[1].publish_date IN
        /\ Added
        /\ ret.book[1] = books[Len(books)]
        /\ ret.book[1].genre = UNKNOWN
        /\ ret.book[1].year =
                IF HasToken(date) /\ IntegerText(LastToken(date))
                THEN Some(IntegerValue(LastToken(date)))
                ELSE None

C23_Witness ==
    /\ op = "add_book_from_api"
    /\ arg.details # None
    /\ arg.details[1].publish_date = YEAR_TEXT \o <<" ", "M">>
    /\ Len(books) = 2
    /\ books[1].year = Some(1999)
    /\ books[2].year = None

----------------------------------------------------------------------------
(* Properties of two sessions over one backing file *)

\* the records of a list, as a set
Records(ms) == {ms[i] : i \in 1..Len(ms)}

\* C22: with two MovieAgent instances over one backing file and no lock, a
\* mutation of one instance that is saved leaves in the file none of the
\* records the other instance holds and the mutating instance never loaded
\* or added: the record the other instance added after this instance had
\* loaded the file is lost.
C22_LostUpdate ==
    [][(mcall'.op \in {"add_movie", "mark_as_watched", "delete_movie"}
            /\ mcall'.write = "ok") =>
        (Records(other.movies) \ Records(movies')) \cap Records(load_movies(mfile').movies) = {}]_vars

C22_Witness ==
    /\ mcall.op = "add_movie"
    /\ mcall.write = "ok"
    /\ fails = 0
    /\ other.magent.live
    /\ Len(other.movies) = 1
    /\ other.movies[1].title = <<"T">>
    /\ Len(movies) = 1
    /\ movies[1].title = <<"t">>
    /\ load_movies(mfile).movies = movies

====
